---- MODULE Spec2Model ----
(***************************************************************************)
(* A model of lxd-rs: typed, ownership-scoped handles over the `lxc`       *)
(* command line tool.  Every operation of the library is one or two        *)
(* synchronous calls of the command executor (lxc / lxc_output); the       *)
(* outcome of the child process is the only input the library does not     *)
(* control and is drawn nondeterministically.                              *)
(*                                                                         *)
(* The caller is any safe Rust program whose handles end by going out of   *)
(* scope: a Snapshot<'a> holds a shared borrow of its Container for 'a,    *)
(* so while it is alive the container can neither be dropped nor used      *)
(* through &mut self (exec, mount, push, pull).                            *)
(***************************************************************************)
EXTENDS Integers, Sequences, FiniteSets, TLC

VARIABLES
    containers,  \* every Container::new so far: the handle (or its failure)
    snapshots,   \* every Snapshot::new so far: the handle (or its failure)
    log,         \* the executor calls issued so far, in order
    call,        \* the library call made last, with its inputs
    ret,         \* what that call returned to its caller
    stdout       \* the bytes lxc_output captured in that call, if any

vars == <<containers, snapshots, log, call, ret, stdout>>

---------------------------------------------------------------------------
(* Bounds of the model *)

MaxCalls == 4        \* executor calls issued by calls other than Drop
MaxFetches == 1      \* Info / Image fetches in one run

(* Inputs the caller chooses from *)

Local == [kind |-> "Local", host |-> ""]
Remote(h) == [kind |-> "Remote", host |-> h]
Locations == {Local, Remote("h")}
Names == {"t1"}
Bases == {"base-x"}
Commands == {<<"echo", "hello">>}
MountNames == {"source"}
HostPaths == {"/tmp/x"}
GuestPaths == {"/root/x"}
SnapNames == {"s1"}
Aliases == {"img"}

(* What the child process can do: exit with success, exit with a failure   *)
(* status, or not be spawned (or waited for) at all.                       *)
Outcomes == {"success", "exit_failure", "spawn_failure"}

---------------------------------------------------------------------------
(* Return values: io::Result, as kind and message *)

OkUnit == [ok |-> TRUE, kind |-> "Unit", msg |-> "", val |-> <<>>]
OkVal(kind, v) == [ok |-> TRUE, kind |-> kind, msg |-> "", val |-> <<v>>]
Err(kind, msg, v) == [ok |-> FALSE, kind |-> kind, msg |-> msg, val |-> v]

(* The exit status a failing child reports *)
ExitStatus(o) == IF o = "success" THEN 0 ELSE 1

(* lxc with the exit status never looked at *)
lxcIgnoresStatus(args, o) ==
    IF o = "spawn_failure" THEN Err("Os", "spawn", <<>>) ELSE OkUnit

(* lxc: spawn()?.wait()? propagates the underlying io error; a status that *)
(* is not success becomes ErrorKind::Other with the arguments and status.  *)
lxc(args, o) ==
    IF o = "spawn_failure" THEN Err("Os", "spawn", <<>>)
    ELSE IF ExitStatus(o) = 0 THEN OkUnit
    ELSE Err("Other", "LXD failed with", <<args, ExitStatus(o)>>)

(* lxc_output: the same, with the captured stdout as the success value *)
lxc_output(args, o, out) ==
    IF o = "spawn_failure" THEN Err("Os", "spawn", <<>>)
    ELSE IF ExitStatus(o) = 0 THEN OkVal("Bytes", out)
    ELSE Err("Other", "LXD failed with", <<args, ExitStatus(o)>>)

(* One entry of the log: who issued the call, its arguments, its outcome *)
Entry(who, args, o) == [who |-> who, args |-> args, out |-> o]
ContainerId(i) == [kind |-> "container", id |-> i]
SnapshotId(j) == [kind |-> "snapshot", id |-> j]
NoHandle == [kind |-> "none", id |-> 0]

Call(op, who, in) == [op |-> op, who |-> who, in |-> in, at |-> Len(log)]

---------------------------------------------------------------------------
(* Location and Container *)

(* full_name with the remote left out *)
qualifyBare(location, name) == name

(* full_name in Container::new *)
qualify(location, name) ==
    IF location.kind = "Local" THEN name
    ELSE location.host \o ":" \o name

Ready(i) == i \in DOMAIN containers /\ containers[i].state = "Ready"

(* A Snapshot that keeps the name and no reference *)
BorrowedNever(i) == FALSE

(* A live Snapshot<'a> holds &'a Container *)
Borrowed(i) ==
    \E j \in DOMAIN snapshots :
        snapshots[j].container = i /\ snapshots[j].state = "Alive"

(* Container::new with the launch result not propagated by `?` *)
ContainerNewProbesAnyway(location, name, base, o1, o2) ==
    LET id == Len(containers) + 1
        full_name == qualify(location, name)
        launch == <<"launch", base, full_name, "-e", "-n", "lxdbr0">>
        probe == <<"exec", full_name, "--mode=non-interactive", "-n", "--",
                   "dhclient">>
        r2 == lxc(probe, o2)
        made(state) == [name |-> full_name, state |-> state,
                        location |-> location, given |-> name]
    IN  /\ Len(log) + 2 <= MaxCalls
        /\ call' = Call("Container::new", ContainerId(id),
                        <<location, name, base>>)
        /\ stdout' = <<>>
        /\ UNCHANGED snapshots
        /\ log' = log \o <<Entry(ContainerId(id), launch, o1),
                           Entry(ContainerId(id), probe, o2)>>
        /\ IF ~r2.ok
           THEN /\ containers' = Append(containers, made("Error"))
                /\ ret' = r2
           ELSE /\ containers' = Append(containers, made("Ready"))
                /\ ret' = OkVal("Container", id)

(* Container::new stopping the instance it launched when the probe fails *)
ContainerNewCleansUp(location, name, base, o1, o2) ==
    LET id == Len(containers) + 1
        full_name == qualify(location, name)
        launch == <<"launch", base, full_name, "-e", "-n", "lxdbr0">>
        probe == <<"exec", full_name, "--mode=non-interactive", "-n", "--",
                   "dhclient">>
        r1 == lxc(launch, o1)
        r2 == lxc(probe, o2)
        made(state) == [name |-> full_name, state |-> state,
                        location |-> location, given |-> name]
    IN  /\ Len(log) + 2 <= MaxCalls
        /\ call' = Call("Container::new", ContainerId(id),
                        <<location, name, base>>)
        /\ stdout' = <<>>
        /\ UNCHANGED snapshots
        /\ IF ~r1.ok
           THEN /\ log' = Append(log, Entry(ContainerId(id), launch, o1))
                /\ containers' = Append(containers, made("Error"))
                /\ ret' = r1
           ELSE IF ~r2.ok
           THEN /\ log' = log \o <<Entry(ContainerId(id), launch, o1),
                                   Entry(ContainerId(id), probe, o2),
                                   Entry(ContainerId(id),
                                         <<"stop", full_name>>, "success")>>
                /\ containers' = Append(containers, made("Error"))
                /\ ret' = r2
           ELSE /\ log' = log \o <<Entry(ContainerId(id), launch, o1),
                                   Entry(ContainerId(id), probe, o2)>>
                /\ containers' = Append(containers, made("Ready"))
                /\ ret' = OkVal("Container", id)

ContainerNew(location, name, base, o1, o2) ==
    LET id == Len(containers) + 1
        full_name == qualify(location, name)
        launch == <<"launch", base, full_name, "-e", "-n", "lxdbr0">>
        probe == <<"exec", full_name, "--mode=non-interactive", "-n", "--",
                   "dhclient">>
        r1 == lxc(launch, o1)
        r2 == lxc(probe, o2)
        made(state) == [name |-> full_name, state |-> state,
                        location |-> location, given |-> name]
    IN  /\ Len(log) + 2 <= MaxCalls
        /\ call' = Call("Container::new", ContainerId(id),
                        <<location, name, base>>)
        /\ stdout' = <<>>
        /\ UNCHANGED snapshots
        /\ IF ~r1.ok
           THEN /\ log' = Append(log, Entry(ContainerId(id), launch, o1))
                /\ containers' = Append(containers, made("Error"))
                /\ ret' = r1
           ELSE /\ log' = log \o <<Entry(ContainerId(id), launch, o1),
                                   Entry(ContainerId(id), probe, o2)>>
                /\ IF ~r2.ok
                   THEN /\ containers' = Append(containers, made("Error"))
                        /\ ret' = r2
                   ELSE /\ containers' = Append(containers, made("Ready"))
                        /\ ret' = OkVal("Container", id)

(* One imperative call through &mut self: a single lxc call *)
Through(i, op, in, args, o) ==
    /\ Ready(i)
    /\ ~Borrowed(i)
    /\ Len(log) < MaxCalls
    /\ call' = Call(op, ContainerId(i), in)
    /\ log' = Append(log, Entry(ContainerId(i), args, o))
    /\ ret' = lxc(args, o)
    /\ stdout' = <<>>
    /\ UNCHANGED <<containers, snapshots>>

exec(i, command, o) ==
    Through(i, "exec", <<command>>,
            <<"exec", containers[i].name, "--">> \o command, o)

mount(i, name, source, dest, o) ==
    Through(i, "mount", <<name, source, dest>>,
            <<"config", "device", "add", containers[i].name, name, "disk",
              "source=" \o source, "path=" \o dest>>, o)

(* push with the flag not looked at *)
pushArgsAlwaysRecursive(cname, source, dest, recursive) ==
    <<"file", "push", "-r", source, cname \o "/" \o dest>>

pushArgs(cname, source, dest, recursive) ==
    IF recursive
    THEN <<"file", "push", "-r", source, cname \o "/" \o dest>>
    ELSE <<"file", "push", source, cname \o "/" \o dest>>

push(i, source, dest, recursive, o) ==
    Through(i, "push", <<source, dest, recursive>>,
            pushArgs(containers[i].name, source, dest, recursive), o)

pullArgs(cname, source, dest, recursive) ==
    IF recursive
    THEN <<"file", "pull", "-r", cname \o "/" \o source, dest>>
    ELSE <<"file", "pull", cname \o "/" \o source, dest>>

pull(i, source, dest, recursive, o) ==
    Through(i, "pull", <<source, dest, recursive>>,
            pullArgs(containers[i].name, source, dest, recursive), o)

(* A drop that stops the instance and leaves the handle usable *)
DropContainerStays(i, o) ==
    LET args == <<"stop", containers[i].name>>
    IN  /\ Ready(i)
        /\ ~Borrowed(i)
        /\ call' = Call("Container::drop", ContainerId(i), <<>>)
        /\ log' = Append(log, Entry(ContainerId(i), args, o))
        /\ ret' = OkUnit
        /\ stdout' = <<>>
        /\ UNCHANGED <<containers, snapshots>>

(* impl Drop for Container: the result of the stop is discarded.  The      *)
(* handle cannot go out of scope while a Snapshot borrows it.              *)
DropContainer(i, o) ==
    LET args == <<"stop", containers[i].name>>
    IN  /\ Ready(i)
        /\ ~Borrowed(i)
        /\ call' = Call("Container::drop", ContainerId(i), <<>>)
        /\ log' = Append(log, Entry(ContainerId(i), args, o))
        /\ containers' = [containers EXCEPT ![i].state = "Deleted"]
        /\ ret' = OkUnit
        /\ stdout' = <<>>
        /\ UNCHANGED snapshots

---------------------------------------------------------------------------
(* Snapshot *)

Alive(j) == j \in DOMAIN snapshots /\ snapshots[j].state = "Alive"

(* Snapshot::new keeping the name it was given *)
SnapshotNewBare(i, name, o) ==
    LET id == Len(snapshots) + 1
        args == <<"snapshot", containers[i].name, name>>
        r == lxc(args, o)
        made(state) == [container |-> i, name |-> name, state |-> state,
                        given |-> name]
    IN  /\ Ready(i)
        /\ Len(log) < MaxCalls
        /\ call' = Call("Snapshot::new", SnapshotId(id), <<i, name>>)
        /\ log' = Append(log, Entry(SnapshotId(id), args, o))
        /\ stdout' = <<>>
        /\ UNCHANGED containers
        /\ IF ~r.ok
           THEN /\ snapshots' = Append(snapshots, made("Error"))
                /\ ret' = r
           ELSE /\ snapshots' = Append(snapshots, made("Alive"))
                /\ ret' = OkVal("Snapshot", id)

(* Snapshot::new, also reached through Container::snapshot(&self) *)
SnapshotNew(i, name, o) ==
    LET id == Len(snapshots) + 1
        args == <<"snapshot", containers[i].name, name>>
        r == lxc(args, o)
        full_name == containers[i].name \o "/" \o name
        made(state) == [container |-> i, name |-> full_name, state |-> state,
                        given |-> name]
    IN  /\ Ready(i)
        /\ Len(log) < MaxCalls
        /\ call' = Call("Snapshot::new", SnapshotId(id), <<i, name>>)
        /\ log' = Append(log, Entry(SnapshotId(id), args, o))
        /\ stdout' = <<>>
        /\ UNCHANGED containers
        /\ IF ~r.ok
           THEN /\ snapshots' = Append(snapshots, made("Error"))
                /\ ret' = r
           ELSE /\ snapshots' = Append(snapshots, made("Alive"))
                /\ ret' = OkVal("Snapshot", id)

publish(j, alias, o) ==
    LET args == <<"publish", snapshots[j].name, "--alias", alias>>
    IN  /\ Alive(j)
        /\ Len(log) < MaxCalls
        /\ call' = Call("publish", SnapshotId(j), <<alias>>)
        /\ log' = Append(log, Entry(SnapshotId(j), args, o))
        /\ ret' = lxc(args, o)
        /\ stdout' = <<>>
        /\ UNCHANGED <<containers, snapshots>>

(* A drop that hands the result of the delete to the caller *)
DropSnapshotSurfaces(j, o) ==
    LET args == <<"delete", snapshots[j].name>>
    IN  /\ Alive(j)
        /\ call' = Call("Snapshot::drop", SnapshotId(j), <<>>)
        /\ log' = Append(log, Entry(SnapshotId(j), args, o))
        /\ snapshots' = [snapshots EXCEPT ![j].state = "Deleted"]
        /\ ret' = lxc(args, o)
        /\ stdout' = <<>>
        /\ UNCHANGED containers

(* impl Drop for Snapshot: the result of the delete is discarded *)
DropSnapshot(j, o) ==
    LET args == <<"delete", snapshots[j].name>>
    IN  /\ Alive(j)
        /\ call' = Call("Snapshot::drop", SnapshotId(j), <<>>)
        /\ log' = Append(log, Entry(SnapshotId(j), args, o))
        /\ snapshots' = [snapshots EXCEPT ![j].state = "Deleted"]
        /\ ret' = OkUnit
        /\ stdout' = <<>>
        /\ UNCHANGED containers

---------------------------------------------------------------------------
(* Info and Image: structured fetches *)

(* The captured output, as JSON tokens.  "A" and "B" stand for two objects *)
(* of the expected shape, "bad" for a JSON value that is not.              *)
Records == {"A", "B"}
Outputs ==
    { <<>>, <<"[", "]">>, <<"[", "A", "]">>, <<"[", "B", "]">>,
      <<"[", "A", ",", "B", "]">>, <<"[", "A", ",", "A", "]">>,
      <<"[", "bad", "]">>, <<"[", "A">>, <<"A">>, <<"[", "A", ",", "]">>,
      <<"[", "A", "B", "]">>, <<"[", "A", "]", "]">> }

(* The elements of a well-formed array body: value (, value)* *)
RECURSIVE Elements(_)
Elements(toks) ==
    IF Len(toks) = 0 THEN [ok |-> FALSE, list |-> <<>>]
    ELSE IF Head(toks) \notin Records THEN [ok |-> FALSE, list |-> <<>>]
    ELSE IF Len(toks) = 1 THEN [ok |-> TRUE, list |-> <<Head(toks)>>]
    ELSE IF toks[2] # "," THEN [ok |-> FALSE, list |-> <<>>]
    ELSE LET rest == Elements(SubSeq(toks, 3, Len(toks)))
         IN  [ok |-> rest.ok, list |-> <<Head(toks)>> \o rest.list]

(* serde_json::from_slice::<Vec<Self>> *)
from_slice(out) ==
    IF Len(out) < 2 \/ out[1] # "[" \/ out[Len(out)] # "]"
    THEN [ok |-> FALSE, list |-> <<>>]
    ELSE IF Len(out) = 2 THEN [ok |-> TRUE, list |-> <<>>]
    ELSE Elements(SubSeq(out, 2, Len(out) - 1))

Fetches == Cardinality({k \in DOMAIN log : log[k].who.kind = "fetch"})
FetchId == [kind |-> "fetch", id |-> 0]

(* A single-name fetch that takes the first record of any non-empty list *)
oneFirst(what, r) ==
    IF ~r.ok THEN r
    ELSE LET parsed == from_slice(r.val[1])
         IN  IF parsed.ok
             THEN IF Len(parsed.list) >= 1
                  THEN OkVal(what, parsed.list[1])
                  ELSE Err("NotFound", "not found", <<>>)
             ELSE Err("Other", "failed to parse json", <<>>)

(* The tail both single-name fetches share: one record or NotFound *)
one(what, r) ==
    IF ~r.ok THEN r
    ELSE LET parsed == from_slice(r.val[1])
         IN  IF parsed.ok
             THEN IF Len(parsed.list) = 1
                  THEN OkVal(what, parsed.list[1])
                  ELSE Err("NotFound", "not found", <<>>)
             ELSE Err("Other", "failed to parse json", <<>>)

(* The tail both list fetches share *)
every(what, r) ==
    IF ~r.ok THEN r
    ELSE LET parsed == from_slice(r.val[1])
         IN  IF parsed.ok
             THEN OkVal(what, parsed.list)
             ELSE Err("Other", "failed to parse json", <<>>)

Fetch(op, in, args, o, out, result) ==
    /\ Fetches < MaxFetches
    /\ Len(log) < MaxCalls
    /\ call' = Call(op, FetchId, in)
    /\ log' = Append(log, Entry(FetchId, args, o))
    /\ stdout' = out
    /\ ret' = result
    /\ UNCHANGED <<containers, snapshots>>

InfoAllArgs(location) ==
    IF location.kind = "Local" THEN <<"list", "--format", "json">>
    ELSE <<"list", location.host \o ":", "--format", "json">>

InfoAll(location, o, out) ==
    Fetch("Info::all", <<location>>, InfoAllArgs(location), o, out,
          every("Infos", lxc_output(InfoAllArgs(location), o, out)))

InfoNewArgs(location, name) ==
    IF location.kind = "Local"
    THEN <<"list", name \o "$", "--format", "json">>
    ELSE <<"list", location.host \o ":", name \o "$", "--format", "json">>

InfoNew(location, name, o, out) ==
    Fetch("Info::new", <<location, name>>, InfoNewArgs(location, name), o,
          out, one("Info", lxc_output(InfoNewArgs(location, name), o, out)))

ImageAllArgs(location) ==
    IF location.kind = "Local" THEN <<"image", "list", "--format", "json">>
    ELSE <<"image", "list", location.host \o ":", "--format", "json">>

ImageAll(location, o, out) ==
    Fetch("Image::all", <<location>>, ImageAllArgs(location), o, out,
          every("Images", lxc_output(ImageAllArgs(location), o, out)))

ImageNewArgs(location, name) ==
    IF location.kind = "Local"
    THEN <<"image", "list", name, "--format", "json">>
    ELSE <<"image", "list", location.host \o ":", name, "--format", "json">>

ImageNew(location, name, o, out) ==
    Fetch("Image::new", <<location, name>>, ImageNewArgs(location, name), o,
          out, one("Image", lxc_output(ImageNewArgs(location, name), o, out)))

---------------------------------------------------------------------------
Init ==
    /\ containers = <<>>
    /\ snapshots = <<>>
    /\ log = <<>>
    /\ call = [op |-> "none", who |-> NoHandle, in |-> <<>>, at |-> 0]
    /\ ret = OkUnit
    /\ stdout = <<>>

Next ==
    \/ \E l \in Locations, n \in Names, b \in Bases, o1, o2 \in Outcomes :
          ContainerNew(l, n, b, o1, o2)
    \/ \E i \in DOMAIN containers, c \in Commands, o \in Outcomes :
          exec(i, c, o)
    \/ \E i \in DOMAIN containers, n \in MountNames, s \in HostPaths,
          d \in GuestPaths, o \in Outcomes : mount(i, n, s, d, o)
    \/ \E i \in DOMAIN containers, s \in HostPaths, d \in GuestPaths,
          r \in BOOLEAN, o \in Outcomes : push(i, s, d, r, o)
    \/ \E i \in DOMAIN containers, s \in GuestPaths, d \in HostPaths,
          r \in BOOLEAN, o \in Outcomes : pull(i, s, d, r, o)
    \/ \E i \in DOMAIN containers, o \in Outcomes : DropContainer(i, o)
    \/ \E i \in DOMAIN containers, n \in SnapNames, o \in Outcomes :
          SnapshotNew(i, n, o)
    \/ \E j \in DOMAIN snapshots, a \in Aliases, o \in Outcomes :
          publish(j, a, o)
    \/ \E j \in DOMAIN snapshots, o \in Outcomes : DropSnapshot(j, o)

(* The output only exists when the child exits with success *)
Captured(o) == IF o = "success" THEN Outputs ELSE {<<>>}

NextFetch ==
    \/ \E l \in Locations, o \in Outcomes : \E out \in Captured(o) :
          InfoAll(l, o, out)
    \/ \E l \in Locations, n \in Names, o \in Outcomes :
          \E out \in Captured(o) : InfoNew(l, n, o, out)
    \/ \E l \in Locations, o \in Outcomes : \E out \in Captured(o) :
          ImageAll(l, o, out)
    \/ \E l \in Locations, n \in Names, o \in Outcomes :
          \E out \in Captured(o) : ImageNew(l, n, o, out)

(* Every operation of the library in one run, each with one input *)
NextAll ==
    \/ \E b \in Bases, n \in Names, o1, o2 \in Outcomes :
          ContainerNew(Local, n, b, o1, o2)
    \/ \E i \in DOMAIN containers, c \in Commands, o \in Outcomes :
          exec(i, c, o)
    \/ \E i \in DOMAIN containers, n \in MountNames, s \in HostPaths,
          d \in GuestPaths, o \in Outcomes : mount(i, n, s, d, o)
    \/ \E i \in DOMAIN containers, s \in HostPaths, d \in GuestPaths,
          o \in Outcomes : push(i, s, d, FALSE, o)
    \/ \E i \in DOMAIN containers, s \in GuestPaths, d \in HostPaths,
          o \in Outcomes : pull(i, s, d, TRUE, o)
    \/ \E i \in DOMAIN containers, o \in Outcomes : DropContainer(i, o)
    \/ \E i \in DOMAIN containers, n \in SnapNames, o \in Outcomes :
          SnapshotNew(i, n, o)
    \/ \E j \in DOMAIN snapshots, a \in Aliases, o \in Outcomes :
          publish(j, a, o)
    \/ \E j \in DOMAIN snapshots, o \in Outcomes : DropSnapshot(j, o)
    \/ \E o \in Outcomes : InfoAll(Local, o, <<"[", "A", ",", "B", "]">>)
    \/ \E n \in Names, o \in Outcomes : InfoNew(Local, n, o, <<"[", "A", "]">>)
    \/ \E o \in Outcomes : ImageAll(Remote("h"), o, <<"[", "]">>)
    \/ \E n \in Names, o \in Outcomes : ImageNew(Remote("h"), n, o, <<"[", "A">>)

Spec == Init /\ [][Next]_vars
SpecFetch == Init /\ [][NextFetch]_vars
SpecAll == Init /\ [][NextAll]_vars
---------------------------------------------------------------------------
(* Reading the log *)

Mine(who) == {k \in DOMAIN log : log[k].who = who}
Teardowns(who) == {k \in Mine(who) : log[k].args[1] \in {"stop", "delete"}}
Issued == SubSeq(log, call.at + 1, Len(log))
SnapshotsOf(i) == {j \in DOMAIN snapshots : snapshots[j].container = i}
Handle(i) == containers[i].state \in {"Ready", "Deleted"}

(* C1: a Container handle has issued no stop while it is in scope and      *)
(* exactly one, `stop <name>`, once it has left it; the stop is issued by  *)
(* Drop, and it is the last call of the handle and of its snapshots.       *)
C1_OneStopAtScopeExit ==
    \A i \in DOMAIN containers :
        LET stops == Teardowns(ContainerId(i))
        IN  /\ containers[i].state = "Ready" => stops = {}
            /\ containers[i].state = "Deleted" =>
                  /\ Cardinality(stops) = 1
                  /\ \A k \in stops :
                        /\ log[k].args = <<"stop", containers[i].name>>
                        /\ \A m \in Mine(ContainerId(i)) : m <= k
                        /\ \A j \in SnapshotsOf(i) :
                              \A m \in Mine(SnapshotId(j)) : m < k
                        /\ k = Len(log) => call.op = "Container::drop"

(* A handle dropped after a failed exec and a successful push *)
C1_Witness ==
    \E i \in DOMAIN containers :
        /\ containers[i].state = "Deleted"
        /\ \E k \in Mine(ContainerId(i)) :
              /\ log[k].args[1] = "exec"
              /\ log[k].args[3] = "--"
              /\ log[k].out = "exit_failure"
        /\ log[Len(log)].args[1] = "stop"

(* C2: once the stop of a container is in the log, none of its snapshots   *)
(* is alive and the delete of each one it had precedes the stop.           *)
C2_SnapshotsBeforeContainer ==
    \A i \in DOMAIN containers :
        \A k \in Teardowns(ContainerId(i)) :
            \A j \in SnapshotsOf(i) :
                /\ snapshots[j].state # "Alive"
                /\ snapshots[j].state = "Deleted" =>
                      \E d \in Teardowns(SnapshotId(j)) : d < k

(* A container stopped after two snapshot handles of it were dropped *)
C2_Witness ==
    \E i \in DOMAIN containers :
        /\ containers[i].state = "Deleted"
        /\ Cardinality({j \in SnapshotsOf(i) :
                           snapshots[j].state = "Deleted"}) = 2

(* The two calls of Container::new *)
LaunchOf(name, base) == <<"launch", base, name, "-e", "-n", "lxdbr0">>
ProbeOf(name) ==
    <<"exec", name, "--mode=non-interactive", "-n", "--", "dhclient">>

(* C3: Container::new issues the launch first and the probe only after a   *)
(* successful launch; a handle exists exactly when both have succeeded.    *)
C3_LaunchThenProbe ==
    /\ call.op = "Container::new" =>
          LET c == containers[call.who.id]
          IN  /\ Len(Issued) >= 1
              /\ Issued[1].args = LaunchOf(c.name, call.in[3])
              /\ Issued[1].out # "success" =>
                    /\ Len(Issued) = 1
                    /\ ~ret.ok
                    /\ c.state = "Error"
              /\ Issued[1].out = "success" =>
                    /\ Len(Issued) = 2
                    /\ Issued[2].args = ProbeOf(c.name)
                    /\ ret.ok <=> Issued[2].out = "success"
              /\ ret.ok <=> c.state = "Ready"
    /\ \A i \in DOMAIN containers :
          Handle(i) <=>
              /\ \E k \in Mine(ContainerId(i)) :
                    log[k].args[1] = "launch" /\ log[k].out = "success"
              /\ \E k \in Mine(ContainerId(i)) :
                    log[k].args = ProbeOf(containers[i].name)
                    /\ log[k].out = "success"

(* A Container::new whose launch has just failed *)
C3_Witness ==
    /\ call.op = "Container::new"
    /\ Len(Issued) = 1
    /\ Issued[1].out = "exit_failure"
    /\ ~ret.ok

(* The container a call of the log names *)
Named(args) ==
    IF args[1] = "launch" THEN args[3]
    ELSE IF args[1] = "config" THEN args[4]
    ELSE args[2]

(* C4: the name of a Container is `n` for Local and `h:n` for Remote(h),   *)
(* and every call made for the handle names the container by that string.  *)
C4_QualifiedNameVerbatim ==
    \A i \in DOMAIN containers :
        LET c == containers[i]
            q == IF c.location.kind = "Local" THEN c.given
                 ELSE c.location.host \o ":" \o c.given
        IN  /\ c.name = q
            /\ c.location = Remote("h") /\ c.given = "t1" => c.name = "h:t1"
            /\ \A k \in Mine(ContainerId(i)) :
                  LET a == log[k].args
                  IN  IF a[1] = "file"
                      THEN \/ a[2] = "push" /\
                                a[Len(a)] \in {q \o "/" \o d : d \in GuestPaths}
                           \/ a[2] = "pull" /\
                                a[Len(a) - 1] \in
                                    {q \o "/" \o d : d \in GuestPaths}
                      ELSE Named(a) = q
            /\ \A j \in SnapshotsOf(i) : \A k \in Mine(SnapshotId(j)) :
                  log[k].args[1] = "snapshot" => log[k].args[2] = q

(* A remote container that was launched, used and stopped *)
C4_Witness ==
    \E i \in DOMAIN containers :
        /\ containers[i].location.kind = "Remote"
        /\ containers[i].state = "Deleted"
        /\ \E k \in Mine(ContainerId(i)) : log[k].args[1] = "config"
        /\ log[Len(log)].args = <<"stop", "h:t1">>

(* C5: a single-name fetch returns the command's failure when the listing  *)
(* fails, the one record of a one-element array, NotFound for an array of  *)
(* zero or several records, and a parse failure for any other output.      *)
C5_SingleFetchOutcome ==
    call.op \in {"Info::new", "Image::new"} =>
        LET e == log[Len(log)]
            parsed == from_slice(stdout)
        IN  /\ Len(Issued) = 1
            /\ e.out = "spawn_failure" => ~ret.ok /\ ret.kind = "Os"
            /\ e.out = "exit_failure" =>
                  ~ret.ok /\ ret.kind = "Other" /\ ret.val = <<e.args, 1>>
            /\ e.out = "success" =>
                  /\ parsed.ok /\ Len(parsed.list) = 1 =>
                        ret.ok /\ ret.val = <<parsed.list[1]>>
                  /\ parsed.ok /\ Len(parsed.list) # 1 =>
                        ~ret.ok /\ ret.kind = "NotFound"
                  /\ ~parsed.ok =>
                        /\ ~ret.ok
                        /\ ret.kind = "Other"
                        /\ ret.msg = "failed to parse json"
                  /\ stdout = <<"[", "B", "]">> => ret.ok /\ ret.val = <<"B">>
                  /\ stdout \in {<<"[", "]">>, <<"[", "A", ",", "B", "]">>,
                                 <<"[", "A", ",", "A", "]">>} =>
                        ret.kind = "NotFound"
                  /\ stdout \in {<<>>, <<"A">>, <<"[", "A">>,
                                 <<"[", "bad", "]">>, <<"[", "A", ",", "]">>} =>
                        ret.kind = "Other"

(* A fetch of one name that the listing answered with two records *)
C5_Witness ==
    /\ call.op = "Info::new"
    /\ stdout = <<"[", "A", ",", "B", "]">>
    /\ ret.kind = "NotFound"

(* C6, as claimed: push("/tmp/x", "/root/x", false) on "t1" issues         *)
(* `file push /tmp/x t1/root/x`.                                           *)
C6_AsClaimed ==
    /\ call.op = "push"
    /\ call.in = <<"/tmp/x", "/root/x", FALSE>>
    /\ containers[call.who.id].name = "t1"
    => log[Len(log)].args = <<"file", "push", "/tmp/x", "t1/root/x">>

(* C6: push issues `file push [-r] <source> <name>/<dest>` and pull        *)
(* `file pull [-r] <name>/<source> <dest>`, one call each, `-r` exactly    *)
(* when recursive, the guest path appended verbatim after `<name>/`:       *)
(* push("/tmp/x", "/root/x", false) on "t1" is `file push /tmp/x           *)
(* t1//root/x`.                                                            *)
C6_PushPullArguments ==
    call.op \in {"push", "pull"} =>
        LET q == containers[call.who.id].name
            a == log[Len(log)].args
            flag == IF call.in[3] THEN <<"-r">> ELSE <<>>
        IN  /\ Len(Issued) = 1
            /\ call.op = "push" =>
                  a = <<"file", "push">> \o flag \o
                      <<call.in[1], q \o "/" \o call.in[2]>>
            /\ call.op = "pull" =>
                  a = <<"file", "pull">> \o flag \o
                      <<q \o "/" \o call.in[1], call.in[2]>>
            /\ call.op = "push" /\ q = "t1"
               /\ call.in = <<"/tmp/x", "/root/x", FALSE>> =>
                  a = <<"file", "push", "/tmp/x", "t1//root/x">>

(* The push of the scenario *)
C6_Witness ==
    /\ call.op = "push"
    /\ call.in = <<"/tmp/x", "/root/x", FALSE>>
    /\ containers[call.who.id].name = "t1"

(* C7: a teardown is one call whose failure reaches nobody and is not      *)
(* tried again, and it leaves the other teardowns to run: whatever the     *)
(* deletes did, the container can be stopped once its snapshots are gone.  *)
C7_TeardownFailureSwallowed ==
    /\ call.op \in {"Container::drop", "Snapshot::drop"} =>
          /\ ret = OkUnit
          /\ Len(Issued) = 1
          /\ Issued[1].args[1] \in {"stop", "delete"}
    /\ \A i \in DOMAIN containers :
          /\ Cardinality(Teardowns(ContainerId(i))) <= 1
          /\ Teardowns(ContainerId(i)) # {} => containers[i].state = "Deleted"
          /\ Ready(i) /\ (\A j \in SnapshotsOf(i) : ~Alive(j)) =>
                ENABLED (\E o \in Outcomes : DropContainer(i, o))
    /\ \A j \in DOMAIN snapshots :
          /\ Cardinality(Teardowns(SnapshotId(j))) <= 1
          /\ Teardowns(SnapshotId(j)) # {} => snapshots[j].state = "Deleted"
          /\ Alive(j) => ENABLED (\E o \in Outcomes : DropSnapshot(j, o))

(* A container stopped after the delete of its snapshot has failed *)
C7_Witness ==
    \E j \in DOMAIN snapshots :
        /\ \E d \in Teardowns(SnapshotId(j)) : log[d].out = "exit_failure"
        /\ containers[snapshots[j].container].state = "Deleted"
        /\ call.op = "Container::drop"
        /\ ret = OkUnit

(* C8: a Container::new whose probe fails after a successful launch        *)
(* returns the probe's error, leaves no handle, and nothing but the launch *)
(* and the probe is ever issued for it.                                    *)
C8_ProbeFailureLeaksInstance ==
    \A i \in DOMAIN containers :
        (\E k \in Mine(ContainerId(i)) :
            /\ log[k].args = ProbeOf(containers[i].name)
            /\ log[k].out # "success") =>
            /\ containers[i].state = "Error"
            /\ Cardinality(Mine(ContainerId(i))) = 2
            /\ \A k \in Mine(ContainerId(i)) :
                  log[k].args[1] = "launch" \/
                  log[k].args = ProbeOf(containers[i].name)
            /\ SnapshotsOf(i) = {}
            /\ call.op = "Container::new" /\ call.who = ContainerId(i) =>
                  /\ ~ret.ok
                  /\ log[Len(log)].out = "exit_failure" =>
                        ret.val = <<ProbeOf(containers[i].name), 1>>
                  /\ log[Len(log)].out = "spawn_failure" => ret.kind = "Os"

(* A failed probe with other calls of the caller after it *)
C8_Witness ==
    \E i \in DOMAIN containers :
        /\ containers[i].state = "Error"
        /\ Cardinality(Mine(ContainerId(i))) = 2
        /\ \E m \in DOMAIN log :
              /\ log[m].who # ContainerId(i)
              /\ \A k \in Mine(ContainerId(i)) : k < m

Imperative == {"exec", "mount", "push", "pull", "Snapshot::new", "publish"}
Fetching == {"Info::all", "Info::new", "Image::all", "Image::new"}

(* C9, as claimed: every failure of an imperative call carries the         *)
(* argument list and the exit status.                                      *)
C9_AsClaimed ==
    call.op \in Imperative =>
        /\ Len(Issued) = 1
        /\ ret.ok <=> Issued[1].out = "success"
        /\ ~ret.ok => ret.val = <<Issued[1].args, 1>>

(* C9: every call of an operation issues exactly one executor call; an     *)
(* imperative call succeeds exactly when the child exits with success, a   *)
(* failing exit status is returned with the argument list and the status,  *)
(* and a child that could not be spawned or waited for is returned as the  *)
(* underlying error.  exec(["echo", "hello"]) on "t1" is `exec t1 -- echo  *)
(* hello`.                                                                 *)
C9_OneCallNoRetry ==
    /\ call.op \in Imperative \cup Fetching => Len(Issued) = 1
    /\ call.op \in Imperative =>
          /\ ret.ok <=> Issued[1].out = "success"
          /\ Issued[1].out = "exit_failure" =>
                ret.kind = "Other" /\ ret.val = <<Issued[1].args, 1>>
          /\ Issued[1].out = "spawn_failure" =>
                ret.kind = "Os" /\ ret.val = <<>>
    /\ call.op \in Fetching => (ret.ok => Issued[1].out = "success")
    /\ call.op = "exec" /\ call.in = << <<"echo", "hello">> >>
       /\ containers[call.who.id].name = "t1" =>
          Issued[1].args = <<"exec", "t1", "--", "echo", "hello">>

(* An exec that exited with a failure status *)
C9_Witness ==
    /\ call.op = "exec"
    /\ log[Len(log)].out = "exit_failure"
    /\ ~ret.ok

(* C10: Snapshot::new issues `snapshot <container> <s>`; a failure leaves  *)
(* no handle and no delete; a handle is named `<container>/<s>`, and that  *)
(* name is the one of every publish and of the one delete at its drop.     *)
C10_SnapshotName ==
    \A j \in DOMAIN snapshots :
        LET s == snapshots[j]
            q == containers[s.container].name
            mine == Mine(SnapshotId(j))
            first == CHOOSE k \in mine : \A m \in mine : k <= m
        IN  /\ mine # {}
            /\ log[first].args = <<"snapshot", q, s.given>>
            /\ s.state = "Error" <=> log[first].out # "success"
            /\ s.state = "Error" => mine = {first}
            /\ s.state # "Error" =>
                  /\ s.name = q \o "/" \o s.given
                  /\ \A k \in mine \ {first} :
                        \/ \E a \in Aliases :
                              log[k].args = <<"publish", q \o "/" \o s.given,
                                              "--alias", a>>
                        \/ /\ log[k].args = <<"delete", q \o "/" \o s.given>>
                           /\ \A m \in mine : m <= k
                  /\ Cardinality(Teardowns(SnapshotId(j))) =
                        IF s.state = "Deleted" THEN 1 ELSE 0

(* A snapshot published and then dropped *)
C10_Witness ==
    \E j \in DOMAIN snapshots :
        /\ snapshots[j].state = "Deleted"
        /\ \E k \in Mine(SnapshotId(j)) : log[k].args[1] = "publish"

====
